---- MODULE Spec2Model ----
(***************************************************************************)
(* The two Streamlit scripts of Get-PharosIDG, genetop.py and temp.py:     *)
(* the button handler that normalises the gene input, looks every gene up  *)
(* in Pharos, enriches it (Open Targets, AlphaFold) and renders reports,   *)
(* a summary table and download buttons.                                   *)
(*                                                                         *)
(* Strings the code cuts up (the input, a gene symbol) are sequences of    *)
(* one-character strings; strings it only passes on are TLA+ strings.      *)
(* Python's None is the string "None" where the value is otherwise a       *)
(* string, and the record NoneObj where it is otherwise a dict.            *)
(***************************************************************************)
EXTENDS Integers, Sequences, FiniteSets, TLC

\* Longest input string typed into the text box.
MaxLen == 3

\* Characters of the input: letters in both cases, the delimiter, a blank.
Alphabet == {"a", "A", "b", ",", " "}

None == "None"
NoneObj == [t |-> "None"]

\* The scripts: the integrated report (genetop.py), the table view (temp.py).
Scripts == {"genetop", "temp"}

-----------------------------------------------------------------------------
(* Python string primitives used by the button handler. *)

\* str.split(","): n delimiters give n + 1 tokens, empty ones included.
RECURSIVE Split(_)
Split(s) ==
    IF \A k \in 1..Len(s) : s[k] # ","
    THEN <<s>>
    ELSE LET p == CHOOSE k \in 1..Len(s) :
                      s[k] = "," /\ \A m \in 1..(k - 1) : s[m] # ","
         IN  <<SubSeq(s, 1, p - 1)>> \o Split(SubSeq(s, p + 1, Len(s)))

\* str.strip(): drop leading and trailing whitespace.
RECURSIVE LStrip(_)
LStrip(s) == IF s # <<>> /\ Head(s) = " " THEN LStrip(Tail(s)) ELSE s

RECURSIVE RStrip(_)
RStrip(s) ==
    IF s # <<>> /\ s[Len(s)] = " " THEN RStrip(SubSeq(s, 1, Len(s) - 1)) ELSE s

Strip(s) == RStrip(LStrip(s))

UpperChar(c) == CASE c = "a" -> "A" [] c = "b" -> "B" [] OTHER -> c

\* str.upper()
Upper(s) == [k \in 1..Len(s) |-> UpperChar(s[k])]

\* bool(x) of a str-or-None value
Truthy(x) == x # None /\ x # ""

\* [g.strip().upper() for g in input_text.split(",") if g.strip()]
RECURSIVE Comprehension(_)
Comprehension(toks) ==
    IF toks = <<>> THEN <<>>
    ELSE IF Strip(Head(toks)) # <<>>
         THEN <<Upper(Strip(Head(toks)))>> \o Comprehension(Tail(toks))
         ELSE Comprehension(Tail(toks))

Normalize(text) == Comprehension(Split(text))

\* All strings over Alphabet of at most n characters.
RECURSIVE StringsUpTo(_)
StringsUpTo(n) ==
    IF n = 0 THEN {<<>>}
    ELSE LET shorter == StringsUpTo(n - 1)
         IN  shorter \cup {Append(s, c) : s \in shorter, c \in Alphabet}

-----------------------------------------------------------------------------
(* The upstream services, as the replies they can give to one request.     *)
(* kind "silent": the service never answers; "refused": the transport      *)
(* fails at once; "reply": an HTTP response with a status and a body.      *)

TIMEOUT == 10

\* Keyword arguments of each requests call site.
PharosKwargs == [timeout |-> TIMEOUT]
OpenTargetsKwargs == [timeout |-> TIMEOUT]
IndexKwargs == [timeout |-> TIMEOUT]
FileKwargs == << >>

\* requests.get / requests.post: what the caller sees of one request.
Send(kwargs, reply) ==
    CASE reply.kind = "silent" ->
             IF "timeout" \in DOMAIN kwargs THEN "raise" ELSE "hang"
      [] reply.kind = "refused" -> "raise"
      [] OTHER -> "response"

\* str(e) of the exception a request raises.
ExcText(reply) ==
    IF reply.kind = "silent" THEN "Read timed out" ELSE "Connection refused"

PharosStatuses == {404, 500}
PharosMessages == {"bad query", "rate limited"}

TargetOf(gene, tdl, uniprot) == [sym |-> gene, tdl |-> tdl, uniprot |-> uniprot]

\* The target objects Pharos can return for a symbol: one with an accession
\* id, one without.
PharosTargets(gene) ==
    {TargetOf(gene, "Tclin", "P00533"), TargetOf(gene, "Tdark", None)}

PharosBody(hasErrors, errors, target) ==
    [hasErrors |-> hasErrors, errors |-> errors, target |-> target]

NoBody == PharosBody(FALSE, <<>>, NoneObj)

PharosReplies(gene) ==
    {[kind |-> "silent", status |-> 0, json |-> NoBody]}
    \cup {[kind |-> "reply", status |-> s, json |-> NoBody] : s \in PharosStatuses}
    \cup {[kind |-> "reply", status |-> 200, json |-> PharosBody(TRUE, <<m>>, NoneObj)] :
              m \in PharosMessages}
    \cup {[kind |-> "reply", status |-> 200, json |-> PharosBody(TRUE, <<>>, NoneObj)]}
    \cup {[kind |-> "reply", status |-> 200, json |-> NoBody]}
    \cup {[kind |-> "reply", status |-> 200, json |-> PharosBody(FALSE, <<>>, t)] :
              t \in PharosTargets(gene)}

-----------------------------------------------------------------------------
(* get_pharos_data: the body of the per-gene loop.                         *)

\* Mutant of PharosEntry: the non-200 branch drops the status code.
PharosEntry_nostatus(gene, reply) ==
    IF Send(PharosKwargs, reply) = "raise"
    THEN [error |-> ExcText(reply)]
    ELSE IF reply.status = 200
         THEN IF reply.json.hasErrors
              THEN IF reply.json.errors = <<>>
                   THEN [error |-> "list index out of range"]
                   ELSE [error |-> reply.json.errors[1]]
              ELSE IF reply.json.target # NoneObj
                   THEN reply.json.target
                   ELSE [error |-> "No data found"]
         ELSE [error |-> "HTTP error"]

\* genetop.py: the value stored in results[gene], on every path.
PharosEntry(gene, reply) ==
    IF Send(PharosKwargs, reply) = "raise"
    THEN [error |-> ExcText(reply)]
    ELSE IF reply.status = 200
         THEN IF reply.json.hasErrors
              THEN IF reply.json.errors = <<>>
                   THEN [error |-> "list index out of range"]
                   ELSE [error |-> reply.json.errors[1]]
              ELSE IF reply.json.target # NoneObj
                   THEN reply.json.target
                   ELSE [error |-> "No data found"]
         ELSE [error |-> "HTTP " \o ToString(reply.status)]

\* Mutant of get_pharos_data_genetop: the empty-target branch stores nothing.
get_pharos_data_genetop_skip(results, gene, reply) ==
    IF PharosEntry(gene, reply) = [error |-> "No data found"]
    THEN results
    ELSE (gene :> PharosEntry(gene, reply)) @@ results

get_pharos_data_genetop(results, gene, reply) ==
    (gene :> PharosEntry(gene, reply)) @@ results

\* temp.py: an entry is stored on success only; every failure is printed.
TempStores(reply) ==
    /\ Send(PharosKwargs, reply) # "raise"
    /\ reply.status = 200
    /\ ~reply.json.hasErrors
    /\ reply.json.target # NoneObj

get_pharos_data_temp(results, gene, reply) ==
    IF TempStores(reply)
    THEN (gene :> [tdl |-> reply.json.target.tdl,
                   uniprot |-> reply.json.target.uniprot]) @@ results
    ELSE results

\* temp.py: the line printed to the console for a failed lookup.
TempPrint(reply) ==
    IF Send(PharosKwargs, reply) = "raise"
    THEN "Exception: " \o ExcText(reply)
    ELSE IF reply.status = 200
         THEN IF reply.json.hasErrors
              THEN IF reply.json.errors = <<>>
                   THEN "Exception: list index out of range"
                   ELSE "Error: " \o reply.json.errors[1]
              ELSE "No data found"
         ELSE "HTTP Error " \o ToString(reply.status)

-----------------------------------------------------------------------------
(* get_opentargets_data *)

DrugsOf(count) == [t |-> "dict", count |-> count]

OTObject(knownDrugs) ==
    [t |-> "dict", knownDrugs |-> knownDrugs, associatedDiseases |-> DrugsOf(3)]

\* body: the first hit's object, NoneObj when the response has no hit.
OpenTargetsReplies ==
    {[kind |-> "silent", status |-> 0, object |-> NoneObj],
     [kind |-> "reply", status |-> 500, object |-> NoneObj],
     [kind |-> "reply", status |-> 200, object |-> NoneObj],
     [kind |-> "reply", status |-> 200, object |-> OTObject(DrugsOf(2))],
     [kind |-> "reply", status |-> 200, object |-> OTObject(NoneObj)]}

\* A request as issued: the service, the keyword arguments, the reply the
\* upstream gives to it.
Request(api, kwargs, reply) == [api |-> api, kwargs |-> kwargs, reply |-> reply]

\* Mutant of get_opentargets_data: the "if not uniprot_id" guard is missing.
get_opentargets_data_noguard(uniprot_id, reply) ==
    [data |-> IF Send(OpenTargetsKwargs, reply) = "raise" THEN NoneObj
              ELSE IF reply.status = 200 THEN reply.object
              ELSE NoneObj,
     sent |-> {Request("opentargets", OpenTargetsKwargs, reply)}]

\* data: the value returned; sent: the requests issued on the way.
get_opentargets_data(uniprot_id, reply) ==
    IF ~Truthy(uniprot_id)
    THEN [data |-> NoneObj, sent |-> {}]
    ELSE [data |-> IF Send(OpenTargetsKwargs, reply) = "raise" THEN NoneObj
                   ELSE IF reply.status = 200 THEN reply.object
                   ELSE NoneObj,
          sent |-> {Request("opentargets", OpenTargetsKwargs, reply)}]

-----------------------------------------------------------------------------
(* get_alphafold_pdb (the same text in both scripts) *)

\* entries: the pdbUrl of each entry of the prediction index.
IndexReplies ==
    {[kind |-> "silent", status |-> 0, entries |-> <<>>],
     [kind |-> "reply", status |-> 404, entries |-> <<>>],
     [kind |-> "reply", status |-> 200, entries |-> <<>>],
     [kind |-> "reply", status |-> 200, entries |-> <<None>>],
     [kind |-> "reply", status |-> 200, entries |-> <<"https://af/P00533.pdb">>]}

FileReplies ==
    {[kind |-> "silent", status |-> 0, content |-> ""],
     [kind |-> "refused", status |-> 0, content |-> ""],
     [kind |-> "reply", status |-> 404, content |-> "<html>404</html>"],
     [kind |-> "reply", status |-> 200, content |-> "ATOM"]}

Result(pdb_url, pdb_content, hang, sent) ==
    [pdb_url |-> pdb_url, pdb_content |-> pdb_content, hang |-> hang, sent |-> sent]

\* "return None, None", after the requests in sent.
Absent(sent) == Result(None, None, FALSE, sent)

\* pdb_url, pdb_content: the pair returned; sent: the requests issued on the
\* way; hang: the call never returns. requests.get(None) raises before
\* anything is sent.
get_alphafold_pdb(uniprot_id, index, file) ==
    IF ~Truthy(uniprot_id) THEN Absent({})
    ELSE LET first == Request("af_index", IndexKwargs, index)
             second == Request("af_file", FileKwargs, file)
         IN  IF Send(IndexKwargs, index) = "raise" THEN Absent({first})
             ELSE IF index.status # 200 THEN Absent({first})
             ELSE IF Len(index.entries) = 0 THEN Absent({first})
             ELSE LET pdb_url == index.entries[1]
                  IN  IF pdb_url = None THEN Absent({first})
                      ELSE CASE Send(FileKwargs, file) = "hang" ->
                                    Result(None, None, TRUE, {first, second})
                             [] Send(FileKwargs, file) = "raise" ->
                                    Absent({first, second})
                             [] OTHER ->
                                    Result(pdb_url, file.content, FALSE,
                                           {first, second})

-----------------------------------------------------------------------------
(* The button handler as a sequential program. *)

VARIABLES
    script,         \* which script runs
    input_text,     \* the text box
    phase,          \* "idle", "lookup", "report", "done", "crashed", "hung"
    gene_list,      \* the normalised symbols
    i,              \* get_pharos_data: index of the next gene to look up
    pharos_info,    \* results of get_pharos_data: symbol -> entry
    stdout,         \* temp.py: lines printed by get_pharos_data
    j,              \* report loop: index of the next gene
    reports,        \* genetop.py: the expanders rendered, in order
    lines,          \* top-level st.error / st.warning lines, in order
    final_results,  \* temp.py: the rows collected
    table,          \* temp.py: the rows of the summary table shown
    buttons,        \* keys of the st.download_button calls, in order
    calls,          \* the network requests issued, each with the position
                    \* of its gene in gene_list and the reply it got
    exception       \* the uncaught exception that ended the run, or None

vars == <<script, input_text, phase, gene_list, i, pharos_info,
          stdout, j, reports, lines, final_results, table, buttons, calls,
          exception>>

Init ==
    /\ script \in Scripts
    /\ input_text \in StringsUpTo(MaxLen)
    /\ phase = "idle"
    /\ gene_list = <<>>
    /\ i = 1
    /\ pharos_info = <<>>
    /\ stdout = <<>>
    /\ j = 1
    /\ reports = <<>>
    /\ lines = <<>>
    /\ final_results = <<>>
    /\ table = <<>>
    /\ buttons = <<>>
    /\ calls = {}
    /\ exception = None

\* The requests of sent, as issued for the gene at pos.
Calls(pos, sent) == {[pos |-> pos, request |-> r] : r \in sent}

\* if st.button(...): if input_text: gene_list = [...] else: st.warning(...)
Click ==
    /\ phase = "idle"
    /\ IF input_text # <<>>
       THEN /\ gene_list' = Normalize(input_text)
            /\ phase' = "lookup"
            /\ lines' = lines
       ELSE /\ gene_list' = gene_list
            /\ phase' = "done"
            /\ lines' = Append(lines, [kind |-> "warning", pos |-> 0,
                                       gene |-> <<>>, text |-> "enter a gene symbol"])
    /\ UNCHANGED <<script, input_text, i, pharos_info, stdout, j,
                   reports, final_results, table, buttons, calls, exception>>

\* get_pharos_data: one iteration of "for gene in gene_symbols".
PharosStep ==
    /\ phase = "lookup"
    /\ i <= Len(gene_list)
    /\ \E reply \in PharosReplies(gene_list[i]) :
          /\ pharos_info' =
                 IF script = "genetop"
                 THEN get_pharos_data_genetop(pharos_info, gene_list[i], reply)
                 ELSE get_pharos_data_temp(pharos_info, gene_list[i], reply)
          /\ stdout' =
                 IF script = "temp" /\ ~TempStores(reply)
                 THEN Append(stdout, [gene |-> gene_list[i], text |-> TempPrint(reply)])
                 ELSE stdout
          /\ calls' = calls \cup Calls(i, {Request("pharos", PharosKwargs, reply)})
    /\ i' = i + 1
    /\ UNCHANGED <<script, input_text, phase, gene_list, j, reports, lines,
                   final_results, table, buttons, exception>>

\* get_pharos_data: "return results".
ReturnResults ==
    /\ phase = "lookup"
    /\ i > Len(gene_list)
    /\ phase' = "report"
    /\ UNCHANGED <<script, input_text, gene_list, i, pharos_info,
                   stdout, j, reports, lines, final_results, table, buttons,
                   calls, exception>>

\* dict.get(key, default)
Get(d, key, default) == IF key \in DOMAIN d THEN d[key] ELSE default

\* genetop.py: the metrics and the drug tab read count through
\* .get(name, {}).get('count', 0); a null member has no .get
RenderRaises(ot_data) ==
    /\ ot_data # NoneObj
    /\ \/ ot_data.associatedDiseases = NoneObj
       \/ ot_data.knownDrugs = NoneObj

\* f"dl_{gene}"
DlKey(gene) == <<"d", "l", "_">> \o gene

\* genetop.py: one iteration of "for gene in gene_list".
ReportGene ==
    /\ phase = "report"
    /\ script = "genetop"
    /\ j <= Len(gene_list)
    /\ LET gene == gene_list[j]
           info == Get(pharos_info, gene, << >>)
       IN  IF "error" \in DOMAIN info
           THEN /\ lines' = Append(lines, [kind |-> "error", pos |-> j,
                                           gene |-> gene, text |-> info.error])
                /\ j' = j + 1
                /\ UNCHANGED <<phase, reports, buttons, calls, exception>>
           ELSE \E ot \in OpenTargetsReplies, index \in IndexReplies,
                   file \in FileReplies :
                  LET uniprot_id == Get(info, "uniprot", None)
                      ot_res == get_opentargets_data(uniprot_id, ot)
                      ot_data == ot_res.data
                      af == get_alphafold_pdb(uniprot_id, index, file)
                  IN  /\ calls' = calls \cup Calls(j, ot_res.sent \cup af.sent)
                      /\ IF af.hang
                         THEN /\ phase' = "hung"
                              /\ UNCHANGED <<j, reports, buttons, exception>>
                         ELSE IF RenderRaises(ot_data)
                         THEN /\ phase' = "crashed"
                              /\ exception' = "AttributeError"
                              /\ UNCHANGED <<j, reports, buttons>>
                         ELSE /\ reports' = Append(reports,
                                     [pos |-> j, gene |-> gene, info |-> info,
                                      ot_data |-> ot_data,
                                      pdb_url |-> af.pdb_url,
                                      pdb_content |-> af.pdb_content])
                              /\ buttons' = IF Truthy(af.pdb_url)
                                            THEN Append(buttons, DlKey(gene))
                                            ELSE buttons
                              /\ j' = j + 1
                              /\ UNCHANGED <<phase, exception>>
                      /\ lines' = lines
    /\ UNCHANGED <<script, input_text, gene_list, i, pharos_info,
                   stdout, final_results, table>>

\* genetop.py: the loop ends and with it the handler.
EndBatch ==
    /\ phase = "report"
    /\ script = "genetop"
    /\ j > Len(gene_list)
    /\ phase' = "done"
    /\ UNCHANGED <<script, input_text, gene_list, i, pharos_info,
                   stdout, j, reports, lines, final_results, table, buttons,
                   calls, exception>>

\* Mutant of NotFoundEntry: the default carries no label.
NotFoundEntry_blank == [tdl |-> None, uniprot |-> None]

\* pharos_info.get(gene, {'tdl': 'Not Found', 'uniprot': None})
NotFoundEntry == [tdl |-> "Not Found", uniprot |-> None]

\* temp.py: one iteration of "for gene in gene_list".
BuildRow ==
    /\ phase = "report"
    /\ script = "temp"
    /\ j <= Len(gene_list)
    /\ \E index \in IndexReplies, file \in FileReplies :
          LET gene == gene_list[j]
              info == Get(pharos_info, gene, NotFoundEntry)
              uniprot_id == info.uniprot
              af == get_alphafold_pdb(uniprot_id, index, file)
          IN  /\ calls' = calls \cup Calls(j, af.sent)
              /\ IF af.hang
                 THEN /\ phase' = "hung"
                      /\ UNCHANGED <<j, final_results>>
                 ELSE /\ final_results' = Append(final_results,
                             [Gene |-> gene,
                              IDG_Level |-> info.tdl,
                              UniProt_ID |-> IF Truthy(uniprot_id)
                                             THEN uniprot_id ELSE "N/A",
                              AF_PDB_Link |-> IF Truthy(af.pdb_url)
                                              THEN af.pdb_url ELSE "Not Found",
                              pdb_content |-> af.pdb_content])
                      /\ j' = j + 1
                      /\ phase' = phase
    /\ UNCHANGED <<script, input_text, gene_list, i, pharos_info,
                   stdout, reports, lines, table, buttons, exception>>

\* pd.DataFrame(final_results).drop(columns=['pdb_content'])
DropContent(rows) ==
    [k \in 1..Len(rows) |->
        [Gene |-> rows[k].Gene, IDG_Level |-> rows[k].IDG_Level,
         UniProt_ID |-> rows[k].UniProt_ID, AF_PDB_Link |-> rows[k].AF_PDB_Link]]

\* f"btn_{idx}"
BtnKey(idx) == <<"b", "t", "n", "_", ToString(idx)>>

\* temp.py: the keys of the buttons of "for idx, item in enumerate(...)".
RECURSIVE DownloadKeys(_, _)
DownloadKeys(rows, idx) ==
    IF rows = <<>> THEN <<>>
    ELSE (IF Truthy(Head(rows).pdb_content) THEN <<BtnKey(idx)>> ELSE <<>>)
         \o DownloadKeys(Tail(rows), idx + 1)

\* temp.py: the table and the download section. An empty frame has no
\* column 'pdb_content' to drop.
RenderTable ==
    /\ phase = "report"
    /\ script = "temp"
    /\ j > Len(gene_list)
    /\ IF final_results = <<>>
       THEN /\ phase' = "crashed"
            /\ exception' = "KeyError"
            /\ UNCHANGED <<table, buttons>>
       ELSE /\ table' = DropContent(final_results)
            /\ buttons' = DownloadKeys(final_results, 0)
            /\ phase' = "done"
            /\ exception' = exception
    /\ UNCHANGED <<script, input_text, gene_list, i, pharos_info,
                   stdout, j, reports, lines, final_results, calls>>

Next ==
    \/ Click
    \/ PharosStep
    \/ ReturnResults
    \/ ReportGene
    \/ EndBatch
    \/ BuildRow
    \/ RenderTable

Spec == Init /\ [][Next]_vars

-----------------------------------------------------------------------------
(* Vocabulary of the properties. *)

Terminal == phase \in {"done", "crashed", "hung"}

\* The Pharos reply given to the k-th lookup (k < i).
LookupReply(k) ==
    (CHOOSE c \in calls : c.pos = k /\ c.request.api = "pharos").request.reply

\* HTTP 200, no server-reported errors, a non-empty target object.
LookupSucceeded(reply) ==
    /\ reply.kind = "reply"
    /\ reply.status = 200
    /\ ~reply.json.hasErrors
    /\ reply.json.target # NoneObj

\* Some lookup of the symbol succeeded.
SomeLookupSucceeded(gene) ==
    \E k \in 1..(i - 1) : gene_list[k] = gene /\ LookupSucceeded(LookupReply(k))

\* The k-th lookup is the last one of its symbol so far.
LastLookup(k) == \A m \in (k + 1)..(i - 1) : gene_list[m] # gene_list[k]

ErrorLines == {k \in 1..Len(lines) : lines[k].kind = "error"}

\* The requests of the enrichment clients for the gene at pos.
EnrichCalls(pos) == {c \in calls : c.pos = pos /\ c.request.api # "pharos"}

NoDuplicates(seq) ==
    \A k1, k2 \in 1..Len(seq) : k1 # k2 => seq[k1] # seq[k2]

-----------------------------------------------------------------------------
\* C1: the normalised gene list has no empty token, no token with leading or
\* trailing whitespace, only upper-case tokens, and no symbol twice.
C1_NormalizedUnique ==
    phase # "idle" =>
        /\ \A k \in 1..Len(gene_list) :
              /\ gene_list[k] # <<>>
              /\ Strip(gene_list[k]) = gene_list[k]
              /\ Upper(gene_list[k]) = gene_list[k]
        /\ NoDuplicates(gene_list)

\* C2: no failure is fatal to the batch: when the handler ends (returning
\* or raising), every gene other than the one being processed at that
\* moment has got its own report (an error line or expander in genetop.py,
\* a row in temp.py).
C2_NoFailureIsFatal ==
    phase \in {"done", "crashed"} =>
        \A p \in 1..Len(gene_list) :
            IF p = j THEN TRUE
            ELSE IF script = "genetop"
            THEN \/ \E k \in 1..Len(reports) : reports[k].pos = p
                 \/ \E k \in ErrorLines : lines[k].pos = p
            ELSE p <= Len(final_results)

\* C3: every gene report is exactly one of an error marker (no lookup
\* result to show) and a carrier of a target record that a successful
\* lookup of that symbol returned; every processed gene has one.
C3_ErrorXorTarget ==
    /\ \A k \in 1..Len(reports) :
          /\ "error" \notin DOMAIN reports[k].info
          /\ \E m \in 1..(i - 1) :
                /\ gene_list[m] = reports[k].gene
                /\ LookupSucceeded(LookupReply(m))
                /\ LookupReply(m).json.target = reports[k].info
          /\ \A e \in ErrorLines : lines[e].pos # reports[k].pos
    /\ \A e \in ErrorLines :
          \E m \in 1..(i - 1) :
              /\ gene_list[m] = lines[e].gene
              /\ ~LookupSucceeded(LookupReply(m))
    /\ script = "genetop" =>
          \A p \in 1..(j - 1) :
              \/ \E k \in 1..Len(reports) : reports[k].pos = p
              \/ \E e \in ErrorLines : lines[e].pos = p
    /\ \A k \in 1..Len(final_results) :
          LET row == final_results[k]
              marker == row.IDG_Level = "Not Found" /\ row.UniProt_ID = "N/A"
              carries ==
                  \E m \in 1..(i - 1) :
                      /\ gene_list[m] = row.Gene
                      /\ LookupSucceeded(LookupReply(m))
                      /\ LookupReply(m).json.target.tdl = row.IDG_Level
                      /\ row.UniProt_ID =
                             IF Truthy(LookupReply(m).json.target.uniprot)
                             THEN LookupReply(m).json.target.uniprot ELSE "N/A"
          IN  /\ marker # carries
              /\ marker <=> ~SomeLookupSucceeded(row.Gene)

\* C3 witness: a batch of genetop.py that has shown an error line for one
\* gene and an expander for another.
C3_Witness ==
    /\ script = "genetop"
    /\ phase = "done"
    /\ ErrorLines # {}
    /\ Len(reports) > 0

Surfaced(gene) ==
    IF script = "genetop" THEN Get(pharos_info, gene, << >>)
    ELSE Get(pharos_info, gene, NotFoundEntry)

\* no server-reported errors, non-200, transport failure, empty target
FailureMode(reply) ==
    CASE reply.kind # "reply" -> "ConnectionError"
      [] reply.status # 200 -> "HttpError"
      [] reply.json.hasErrors -> "RemoteError"
      [] reply.json.target = NoneObj -> "NotFound"
      [] OTHER -> "None"

IndexCall(pos) == {c \in EnrichCalls(pos) : c.request.api = "af_index"}
FileCall(pos) == {c \in EnrichCalls(pos) : c.request.api = "af_file"}

HttpOk(reply) == reply.kind = "reply" /\ reply.status = 200

\* The structure result at pos is (url, bytes) only if both requests were
\* answered with success, and (None, None) otherwise.
StructureSound(pos, pdb_url, pdb_content) ==
    IF /\ \E c \in IndexCall(pos) : HttpOk(c.request.reply)
       /\ \E c \in FileCall(pos) : HttpOk(c.request.reply)
    THEN TRUE
    ELSE pdb_url = None /\ pdb_content = None

\* C6: any failure of the index request or of the file download collapses
\* to (absent URL, absent bytes).
C6_FailureCollapses ==
    /\ \A k \in 1..Len(reports) :
          StructureSound(reports[k].pos, reports[k].pdb_url, reports[k].pdb_content)
    /\ \A k \in 1..Len(final_results) :
          StructureSound(k, IF final_results[k].AF_PDB_Link = "Not Found"
                            THEN None ELSE final_results[k].AF_PDB_Link,
                         final_results[k].pdb_content)

\* C7: every outbound call carries a timeout, and no call waits forever.
C7_EveryCallBounded ==
    /\ \A c \in calls : "timeout" \in DOMAIN c.request.kwargs
    /\ phase # "hung"

\* C8: for a successfully looked-up gene without accession id neither
\* enrichment client issues a request, both return absent, and the gene's
\* composite report (its row in temp.py) is still emitted.
C8_AbsentAccessionShortCircuits ==
    /\ \A k \in 1..Len(reports) :
          ~Truthy(Get(reports[k].info, "uniprot", None)) =>
              /\ EnrichCalls(reports[k].pos) = {}
              /\ reports[k].ot_data = NoneObj
              /\ reports[k].pdb_url = None
              /\ reports[k].pdb_content = None
    /\ script = "genetop" =>
          \A p \in 1..(j - 1) :
              LET info == pharos_info[gene_list[p]]
              IN  "error" \notin DOMAIN info /\ ~Truthy(Get(info, "uniprot", None))
                  => \E k \in 1..Len(reports) : reports[k].pos = p
    /\ \A k \in 1..Len(final_results) :
          final_results[k].UniProt_ID = "N/A" =>
              /\ EnrichCalls(k) = {}
              /\ final_results[k].AF_PDB_Link = "Not Found"
              /\ final_results[k].pdb_content = None
    /\ script = "temp" =>
          \A p \in 1..(j - 1) :
              ~Truthy(Get(pharos_info, gene_list[p], NotFoundEntry).uniprot)
              => p <= Len(final_results) /\ final_results[p].UniProt_ID = "N/A"

\* C8 witness: genetop.py has rendered the expander of a gene whose target
\* has no accession id.
C8_Witness ==
    /\ script = "genetop"
    /\ \E k \in 1..Len(reports) :
          /\ reports[k].info.uniprot = None
          /\ LookupSucceeded(LookupReply(reports[k].pos))

\* C9: an input that normalises to the empty sequence is "nothing to do":
\* no lookup, no report, and the run ends without an error.
C9_EmptyIsNothingToDo ==
    Terminal /\ Normalize(input_text) = <<>> =>
        /\ phase = "done"
        /\ exception = None
        /\ calls = {}
        /\ reports = <<>>
        /\ final_results = <<>>
        /\ ErrorLines = {}

\* C10: no two download controls rendered in one batch share a key.
C10_UniqueDownloadKeys == NoDuplicates(buttons)

====
